---- MODULE Spec2Model ----
(***************************************************************************)
(* A model of the Chat page (src/app/src/pages/Chat.jsx): the derivation   *)
(* of conversation keys, the exclusive selection and the messages effect   *)
(* with its listeners, the document store as the page reads and writes it, *)
(* handleSubmit with its AI branch, handleForwardMessage,                  *)
(* handleDeleteMessage, and the snapshot callbacks of the users, groups,   *)
(* messages, presence and typing subscriptions.                            *)
(*                                                                         *)
(* A JavaScript string is a sequence of one-character strings (a uid) or   *)
(* of text fragments (a message text), so that sort, join, trim and the    *)
(* template at line 241 are computed, not assumed.  null, undefined and '' *)
(* are the empty sequence; an object field that is not set is a field the  *)
(* record does not have.                                                   *)
(***************************************************************************)
EXTENDS Integers, Sequences, FiniteSets, TLC

VARIABLES
    keyA, keyB,              \* two conversation keys derived, each with its inputs and its place
    selectedUser,            \* useState(null), line 31: a uid or Null
    selectedGroup,           \* useState(null), line 32: a group id or Null
    selectedAI,              \* useState(false), line 41
    effectPending,           \* the messages effect's dependencies changed and it has not yet re-run
    msgSub,                  \* the query the messages effect last subscribed to, or NoSub
    listeners,               \* the queries whose onSnapshot listener is attached, oldest first
    messages,                \* useState([]), line 35
    msgDocs,                 \* the store's 'messages' collection, in insertion order
    aiDocs,                  \* the store's 'aiMessages' collection, in insertion order
    conversations,           \* the store's 'conversations' collection: conversation id -> metadata
    clock,                   \* the store's clock: server timestamps and document ids come from it
    newMessage,              \* useState(''), line 34
    selectedFile,            \* useState(null), line 36
    loading,                 \* useState(false), line 37
    aiLoading,               \* useState(false), line 42
    alerts,                  \* the number of alert() calls so far
    calls,                   \* the handleSubmit calls made so far, each with its position
    fwd,                     \* the handleForwardMessage calls made so far, each with its batch
    authUser,                \* auth.currentUser: the uid signed in, or Null
    users,                   \* useState([]), line 29
    groups,                  \* useState([]), line 30
    currentUserData,         \* useState(null), line 38
    userStatus,              \* useState({}), line 40: uid -> presence
    typingStatus,            \* useState({}), line 39: uid -> typing value
    delivered,               \* how many snapshots each subscription has delivered
    dels                     \* the handleDeleteMessage calls made so far, each with its document reference

vars == <<keyA, keyB, selectedUser, selectedGroup, selectedAI, effectPending, msgSub,
          listeners, messages, msgDocs, aiDocs, conversations, clock, newMessage, selectedFile,
          loading, aiLoading, alerts, calls, fwd, authUser, users, groups,
          currentUserData, userStatus, typingStatus, delivered, dels>>

keyVars    == <<keyA, keyB>>
selVars    == <<selectedUser, selectedGroup, selectedAI>>
viewVars   == <<effectPending, msgSub, listeners, messages>>
storeVars  == <<msgDocs, aiDocs, conversations, clock>>
draftVars  == <<newMessage, selectedFile>>
submitVars == <<loading, aiLoading, calls>>
sliceVars  == <<authUser, users, groups, currentUserData, userStatus, typingStatus, delivered>>

----------------------------------------------------------------------------
(* Bounds *)

MaxUidLen     == 2     \* uids are the strings of 1..MaxUidLen characters over Alphabet
Preloaded     == 50    \* a conversation that exists before the page is opened holds this many messages
MaxNewDocs    == 2     \* messages added to the store while the page is open (Spec)
MaxSubmits    == 2     \* handleSubmit calls in one behaviour (SpecSubmit)
MaxForwards   == 2     \* handleForwardMessage calls in one behaviour (SpecForward)
MaxRecipients == 2     \* the longest recipientIds list
MaxDeletes    == 2     \* handleDeleteMessage calls in one behaviour (SpecDelete)
MaxSnapshots  == 2     \* snapshots one subscription delivers (SpecStreams, SpecIdentity)

QueryLimit    == 50    \* limit(50), lines 95, 102, 109

----------------------------------------------------------------------------
(* JavaScript values *)

Null == << >>

Truthy(v) == v # Null

\* null where the value, when there is one, is an object (a File, fileData)
NoFile == [null |-> TRUE]

Range(s) == {s[i] : i \in 1..Len(s)}

Alphabet == {"a", "_"}

\* The UTF-16 code unit of a character: Array.prototype.sort compares by these.
CodeUnit(c) == CASE c = "/" -> 47
                 [] c = "_" -> 95
                 [] c = "a" -> 97
                 [] c = "g" -> 103
                 [] OTHER   -> 120

RECURSIVE StringsUpTo(_)
StringsUpTo(n) ==
    IF n = 0 THEN {<< >>}
    ELSE LET shorter == StringsUpTo(n - 1)
         IN  shorter \cup {Append(s, c) : s \in {t \in shorter : Len(t) = n - 1}, c \in Alphabet}

Uids == StringsUpTo(MaxUidLen) \ {<< >>}

\* s < t as JavaScript compares two strings: by code units, a proper prefix first.
RECURSIVE StrLess(_, _)
StrLess(s, t) ==
    IF t = << >> THEN FALSE
    ELSE IF s = << >> THEN TRUE
    ELSE IF s[1] # t[1] THEN CodeUnit(s[1]) < CodeUnit(t[1])
    ELSE StrLess(Tail(s), Tail(t))

\* [a, b].sort()
Sort2(a, b) == IF StrLess(b, a) THEN <<b, a>> ELSE <<a, b>>

\* [a, b], left in the order given
Unsorted2(a, b) == <<a, b>>

\* participants, lines 90, 289, 343
participantsOf(authUid, uid) == Sort2(authUid, uid)

\* participants.join('_'), lines 93, 290, 344
joinParticipants(p) == p[1] \o <<"_">> \o p[2]

conversationKey(authUid, uid) == joinParticipants(participantsOf(authUid, uid))

----------------------------------------------------------------------------
(* The session: auth.currentUser.uid, the other users, the groups *)

Me      == <<"a">>
Peer1   == <<"a", "a">>
Peer2   == <<"_">>
Peers   == {Peer1, Peer2}
Group1  == <<"g">>
Groups  == {Group1}
Pages   == {"ai", "chats"}

Hi      == <<"hi">>          \* a message text

\* The five subscriptions of the page: lines 52, 75, 116, 134, 153
Streams == {"users", "groups", "messages", "presence", "typing"}

----------------------------------------------------------------------------
(* Conversation keys at the three places that derive one (SpecKey) *)

NoKey == [site |-> "none", authUid |-> Null, uid |-> Null, key |-> Null]

Derived(site, authUid, uid) ==
    [site |-> site, authUid |-> authUid, uid |-> uid, key |-> conversationKey(authUid, uid)]

\* Two derivations are kept, to be compared: the first in keyA, the second in keyB.
Keep(derived) ==
    /\ keyB = NoKey
    /\ IF keyA = NoKey THEN keyA' = derived /\ keyB' = keyB
       ELSE keyA' = keyA /\ keyB' = derived

\* lines 90-93: the key the messages query filters on
DeriveAtQuery ==
    \E authUid \in Uids, uid \in Uids :
        Keep(Derived("query", authUid, uid))
        /\ UNCHANGED <<sliceVars, dels, selVars, viewVars, storeVars, draftVars, submitVars, alerts, fwd>>

\* lines 289-290: the key handleSubmit writes
DeriveAtSend ==
    \E authUid \in Uids, uid \in Uids :
        Keep(Derived("send", authUid, uid))
        /\ UNCHANGED <<sliceVars, dels, selVars, viewVars, storeVars, draftVars, submitVars, alerts, fwd>>

\* lines 343-344: the key handleForwardMessage writes
DeriveAtForward ==
    \E authUid \in Uids, uid \in Uids :
        Keep(Derived("forward", authUid, uid))
        /\ UNCHANGED <<sliceVars, dels, selVars, viewVars, storeVars, draftVars, submitVars, alerts, fwd>>

----------------------------------------------------------------------------
(* The document store *)

\* addDoc: the store assigns the document id and resolves serverTimestamp()
Stored(data, now) == data @@ [id |-> now, timestamp |-> now]

\* A messageData whose group branch is missing: only a user target is tagged
messageDataUserOnly(authUid, text, fileData, selUser, selGroup) ==
    LET base == [text |-> text, uid |-> authUid, fileData |-> fileData]
    IN  IF Truthy(selUser)
        THEN base @@ [conversationId |-> conversationKey(authUid, selUser),
                      receiverId |-> selUser]
        ELSE base

\* messageData, lines 279-294 (photoURL and displayName, which no query reads, are left out)
messageData(authUid, text, fileData, selUser, selGroup) ==
    LET base == [text |-> text, uid |-> authUid, fileData |-> fileData]
    IN  IF Truthy(selUser)
        THEN base @@ [conversationId |-> conversationKey(authUid, selUser),
                      receiverId |-> selUser]
        ELSE IF Truthy(selGroup)
        THEN base @@ [groupId |-> selGroup]
        ELSE base

\* The conversation a session may find in the store when the page opens:
\* Preloaded messages that Peer1 sent to Me, oldest first.
History == [i \in 1..Preloaded |-> Stored(messageData(Peer1, Hi, NoFile, Me, Null), i)]

NoSub == [coll |-> "none", field |-> "none", value |-> Null]

\* q, lines 88-114: the query of the selected target, or none
messagesQuery(authUid, selUser, selGroup, selAI) ==
    IF Truthy(selUser)
    THEN [coll |-> "messages", field |-> "conversationId",
          value |-> conversationKey(authUid, selUser)]
    ELSE IF Truthy(selGroup)
    THEN [coll |-> "messages", field |-> "groupId", value |-> selGroup]
    ELSE IF selAI
    THEN [coll |-> "aiMessages", field |-> "userId", value |-> authUid]
    ELSE NoSub

\* where(field, '==', value)
Where(docs, field, value) ==
    SelectSeq(docs, LAMBDA d : field \in DOMAIN d /\ d[field] = value)

\* The store's order on timestamp ascending; equal timestamps fall back on the id.
DocBefore(d, e) ==
    \/ d.timestamp < e.timestamp
    \/ d.timestamp = e.timestamp /\ d.id < e.id

\* docs sorted by DocBefore: the document at place i is the one that i - 1 others precede.
SortAsc(docs) ==
    LET n    == Len(docs)
        rank == [j \in 1..n |-> Cardinality({k \in 1..n : DocBefore(docs[k], docs[j])})]
    IN  [i \in 1..n |-> docs[CHOOSE j \in 1..n : rank[j] = i - 1]]

\* orderBy('timestamp', 'asc')
OrderByTimestampAsc(docs) == SortAsc(docs)

\* limit(n): the first n documents of the ordered result
Limit(docs, n) == SubSeq(docs, 1, IF Len(docs) < n THEN Len(docs) ELSE n)

Collection(q) == IF q.coll = "aiMessages" THEN aiDocs ELSE msgDocs

\* What the store answers to q, lines 91-96, 98-103, 105-110
QueryResult(q) ==
    Limit(OrderByTimestampAsc(Where(Collection(q), q.field, q.value)), QueryLimit)

\* The snapshot callback's mapping of one document, lines 117-122
snapshotDoc(d) == IF "isAI" \in DOMAIN d THEN d ELSE d @@ [isAI |-> FALSE]

messagesData(q) ==
    LET result == QueryResult(q)
    IN  [i \in 1..Len(result) |-> snapshotDoc(result[i])]

----------------------------------------------------------------------------
(* Selection, lines 308-316 and 398-407.  The setState calls of one event  *)
(* handler are applied together, in one render.                            *)

Selection(user, group, ai) == [user |-> user, group |-> group, ai |-> ai]

CurrentSelection == Selection(selectedUser, selectedGroup, selectedAI)

\* onUserSelect, lines 398-402
userSelected(sel, user) == Selection(user, Null, FALSE)

\* onGroupSelect, lines 403-407
groupSelected(sel, group) == Selection(Null, group, FALSE)

\* handleNavigate that only sets the AI flag, leaving the user and the group
navigatedKeeping(sel, page) == Selection(sel.user, sel.group, page = "ai")

\* handleNavigate, lines 308-316
navigated(sel, page) ==
    IF page = "ai" THEN Selection(Null, Null, TRUE)
    ELSE Selection(sel.user, sel.group, FALSE)

\* A handler's new selection reaches the state; the messages effect, whose
\* dependencies (line 127) are the three fields, is due when one of them changed.
Select(sel) ==
    /\ selectedUser' = sel.user
    /\ selectedGroup' = sel.group
    /\ selectedAI' = sel.ai
    /\ effectPending' = (effectPending \/ sel # CurrentSelection)
    /\ UNCHANGED <<msgSub, listeners, messages>>

onUserSelect(user) ==
    /\ Select(userSelected(CurrentSelection, user))
    /\ UNCHANGED <<sliceVars, dels, keyVars, storeVars, draftVars, submitVars, alerts, fwd>>

onGroupSelect(group) ==
    /\ Select(groupSelected(CurrentSelection, group))
    /\ UNCHANGED <<sliceVars, dels, keyVars, storeVars, draftVars, submitVars, alerts, fwd>>

handleNavigate(page) ==
    /\ Select(navigated(CurrentSelection, page))
    /\ UNCHANGED <<sliceVars, dels, keyVars, storeVars, draftVars, submitVars, alerts, fwd>>

----------------------------------------------------------------------------
(* The messages effect and its subscription, lines 87-127 *)

\* What the effect's body does to messages when it runs for query q:
\* setMessages([]) at line 112 when nothing is selected, nothing otherwise.
messagesAfterEffect(q, shown) == IF q = NoSub THEN << >> ELSE shown

\* A cleanup that leaves the previous run's listener attached
KeptSubscribed(ls, q) == ls

\* unsubscribe(), line 126: the listener the previous run attached for q is detached
Unsubscribed(ls, q) ==
    IF \E j \in 1..Len(ls) : ls[j] = q
    THEN LET j == CHOOSE j \in 1..Len(ls) : ls[j] = q /\ \A k \in 1..(j - 1) : ls[k] # q
         IN  SubSeq(ls, 1, j - 1) \o SubSeq(ls, j + 1, Len(ls))
    ELSE ls

\* onSnapshot(q, ...), line 116; the else branch of lines 111-114 attaches nothing
Subscribed(ls, q) == IF q = NoSub THEN ls ELSE Append(ls, q)

\* The effect runs after a render in which a dependency changed: the cleanup of
\* the previous run (line 126) unsubscribes, then the body subscribes to q.
MessagesEffect ==
    /\ effectPending
    /\ LET q == messagesQuery(Me, selectedUser, selectedGroup, selectedAI)
       IN  /\ msgSub' = q
           /\ listeners' = Subscribed(Unsubscribed(listeners, msgSub), q)
           /\ messages' = messagesAfterEffect(q, messages)
    /\ effectPending' = FALSE
    /\ UNCHANGED <<sliceVars, dels, keyVars, selVars, storeVars, draftVars, submitVars, alerts, fwd>>

\* The listener attached for q is called with a snapshot, lines 116-124
SnapshotFrom(q) ==
    /\ messages' = messagesData(q)
    /\ UNCHANGED <<effectPending, msgSub, listeners>>
    /\ UNCHANGED <<sliceVars, dels, keyVars, selVars, storeVars, draftVars, submitVars, alerts, fwd>>

\* The store calls an attached listener; a detached one is never called again
SnapshotDelivered == \E j \in 1..Len(listeners) : SnapshotFrom(listeners[j])

\* Another user's page runs lines 279-296 with its own selection: one more
\* document in 'messages'.
PeerSubmit(sender, selUser, selGroup) ==
    /\ clock < Preloaded + MaxNewDocs
    /\ clock' = clock + 1
    /\ msgDocs' = Append(msgDocs, Stored(messageData(sender, Hi, NoFile, selUser, selGroup), clock'))
    /\ UNCHANGED <<aiDocs, conversations>>
    /\ UNCHANGED <<sliceVars, dels, keyVars, selVars, viewVars, draftVars, submitVars, alerts, fwd>>

----------------------------------------------------------------------------
(* handleSubmit, lines 168-306.  An async function runs to its next await  *)
(* in one step; the awaited call settles, fulfilled or rejected, in a      *)
(* later step, and other events may come between.  A call keeps the        *)
(* newMessage, selectedFile and selection of the render it was made in.    *)

ImageFile == [name |-> <<"cat.png">>, type |-> <<"image", "/", "png">>]
PdfFile   == [name |-> <<"doc.pdf">>, type |-> <<"application", "/", "pdf">>]
Files     == {ImageFile, PdfFile}
Texts     == {Null, Hi}

AiText      == <<"reply">>
ApologyText == <<"Sorry, I encountered an error while processing your request. Please try again.">>

IsSpace(c) == c = " "

\* String.prototype.trim
RECURSIVE TrimStart(_)
TrimStart(t) == IF t # << >> /\ IsSpace(t[1]) THEN TrimStart(Tail(t)) ELSE t

RECURSIVE TrimEnd(_)
TrimEnd(t) ==
    IF t # << >> /\ IsSpace(t[Len(t)]) THEN TrimEnd(SubSeq(t, 1, Len(t) - 1)) ELSE t

Trim(t) == TrimEnd(TrimStart(t))

\* type.startsWith(prefix)
StartsWith(t, prefix) == Len(t) >= Len(prefix) /\ SubSeq(t, 1, Len(prefix)) = prefix

\* type.split('/')[0]
RECURSIVE BeforeSlash(_)
BeforeSlash(t) ==
    IF t = << >> \/ t[1] = "/" THEN << >> ELSE <<t[1]>> \o BeforeSlash(Tail(t))

\* The guard of line 170: TRUE when handleSubmit returns at once.
submitRefused(text, file, sel) ==
    \/ ~Truthy(Trim(text)) /\ file = NoFile
    \/ ~Truthy(sel.user) /\ ~Truthy(sel.group) /\ ~sel.ai

\* fileData, lines 177-184 (size, publicId and resourceType, which nothing reads, are left out)
uploadedFileData(file) == [url |-> <<"url:">> \o file.name, name |-> file.name, type |-> file.type]

\* userMessage, lines 189-195
userMessage(authUid, text, fileData) ==
    [text |-> text, userId |-> authUid, isAI |-> FALSE, fileData |-> fileData]

\* aiMessage, lines 231-236, 240-245, 255-260
aiMessage(authUid, text) == [text |-> text, userId |-> authUid, isAI |-> TRUE]

\* An error message that is not marked as one
errorMessageUnflagged(authUid) == [text |-> ApologyText, userId |-> authUid, isAI |-> TRUE]

\* errorMessage, lines 267-273
errorMessage(authUid) ==
    [text |-> ApologyText, userId |-> authUid, isAI |-> TRUE, isError |-> TRUE]

\* The template of line 241
cannedAcknowledgment(file, prompt) ==
    <<"I received your ">> \o BeforeSlash(file.type) \o <<" file \"">> \o file.name
        \o <<"\". ">>
        \o (IF Truthy(prompt) THEN <<"Regarding your message: ">> \o prompt
            ELSE <<"How can I help you with this file?">>)

\* Line 218: the text sent along with an image
imagePrompt(prompt) == IF Truthy(prompt) THEN prompt ELSE <<"What do you see in this image?">>

\* The await a call reaches once the upload, if any, is done: lines 187, 196, 296
stepAfterUpload(sel) == IF sel.ai THEN "saveUser" ELSE "append"

\* The call as handleSubmit leaves it at its first await, lines 172-176
startedCall(text, file, sel) ==
    [pc |-> IF file # NoFile THEN "upload" ELSE stepAfterUpload(sel),
     text |-> text, file |-> file, sel |-> sel, fileData |-> NoFile,
     reply |-> Null, asked |-> Null, failed |-> {}, outcome |-> "running"]

\* An AI branch that sends every turn with a file to the generation backend
aiBranchAlwaysAsking(call) ==
    IF call.file # NoFile /\ call.fileData # NoFile
    THEN [call EXCEPT !.pc = "fetch"]
    ELSE [call EXCEPT !.pc = "generate", !.asked = call.text]

\* The try block up to its first await, lines 200-217, 238-250: fetch the image,
\* save the canned acknowledgment, or ask the backend for a text-only prompt.
aiBranchEntered(call) ==
    IF call.file # NoFile /\ call.fileData # NoFile
    THEN IF StartsWith(call.file.type, <<"image", "/">>)
         THEN [call EXCEPT !.pc = "fetch"]
         ELSE [call EXCEPT !.pc = "saveAI",
                           !.reply = cannedAcknowledgment(call.file, call.text)]
    ELSE [call EXCEPT !.pc = "generate", !.asked = call.text]

\* A try block whose failure reaches the caller instead of being saved as a message
tryFailureRethrown(call, step) ==
    [call EXCEPT !.pc = "done", !.outcome = "failed", !.failed = @ \cup {step},
                 !.text = Null, !.file = NoFile, !.fileData = NoFile, !.reply = Null]

\* The catch of lines 263-274: whatever failed in the try block, save an error message
tryFailed(call, step) == [call EXCEPT !.pc = "saveError", !.failed = @ \cup {step}]

\* The draft after a submit that clears it whether or not it succeeded
draftAlwaysCleared(outcome, text, file) == [text |-> Null, file |-> NoFile]

\* Lines 299-300 run on the success path only; the catch of 301-304 leaves the draft
draftAfterSubmit(outcome, text, file) ==
    IF outcome = "success" THEN [text |-> Null, file |-> NoFile]
    ELSE [text |-> text, file |-> file]

\* A document written by call i.  The field turn is not in the code's document:
\* it records which handleSubmit call wrote it.
StoredBy(data, now, i) == Stored(data, now) @@ [turn |-> i]

\* A call that has returned: its locals are gone; what it asked the backend,
\* what failed in it and how it ended are kept for the record.
returned(call, outcome) ==
    [call EXCEPT !.pc = "done", !.outcome = outcome, !.text = Null, !.file = NoFile,
                 !.fileData = NoFile, !.reply = Null]

\* The end of a call: lines 299-300 and 305 on success, 301-305 on failure
Finish(i, call, outcome) ==
    /\ calls' = [calls EXCEPT ![i] = returned(call, outcome)]
    /\ newMessage' = draftAfterSubmit(outcome, newMessage, selectedFile).text
    /\ selectedFile' = draftAfterSubmit(outcome, newMessage, selectedFile).file
    /\ alerts' = IF outcome = "failed" THEN alerts + 1 ELSE alerts
    /\ loading' = FALSE

Failing(call, step) == [call EXCEPT !.failed = @ \cup {step}]

handleSubmit ==
    IF submitRefused(newMessage, selectedFile, CurrentSelection)
    THEN UNCHANGED vars
    ELSE /\ Len(calls) < MaxSubmits
         /\ loading' = TRUE
         /\ calls' = Append(calls, startedCall(newMessage, selectedFile, CurrentSelection))
         /\ UNCHANGED <<sliceVars, dels, keyVars, selVars, viewVars, storeVars, draftVars, aiLoading, alerts, fwd>>

\* uploadFileToCloudinary settles, lines 176-184
UploadSettled(i, ok) ==
    /\ calls[i].pc = "upload"
    /\ IF ok
       THEN /\ calls' = [calls EXCEPT ![i] =
                            [calls[i] EXCEPT !.pc = stepAfterUpload(calls[i].sel),
                                             !.fileData = uploadedFileData(calls[i].file)]]
            /\ UNCHANGED <<draftVars, loading, alerts>>
       ELSE Finish(i, Failing(calls[i], "upload"), "failed")
    /\ UNCHANGED <<sliceVars, dels, keyVars, selVars, viewVars, storeVars, aiLoading, fwd>>

\* addDoc of the user's turn settles, lines 196-199, and the try block starts
UserTurnSaved(i, ok) ==
    /\ calls[i].pc = "saveUser"
    /\ IF ok
       THEN /\ clock' = clock + 1
            /\ aiDocs' = Append(aiDocs,
                   StoredBy(userMessage(Me, calls[i].text, calls[i].fileData), clock', i))
            /\ aiLoading' = TRUE
            /\ calls' = [calls EXCEPT ![i] = aiBranchEntered(calls[i])]
            /\ UNCHANGED <<draftVars, loading, alerts>>
       ELSE /\ Finish(i, Failing(calls[i], "saveUser"), "failed")
            /\ UNCHANGED <<clock, aiDocs, aiLoading>>
    /\ UNCHANGED <<sliceVars, dels, keyVars, selVars, viewVars, msgDocs, conversations, fwd>>

\* fetch, blob and the FileReader settle, lines 209-215; the backend is asked, line 217
ImageFetched(i, ok) ==
    /\ calls[i].pc = "fetch"
    /\ calls' = [calls EXCEPT ![i] =
                    IF ok THEN [calls[i] EXCEPT !.pc = "generate",
                                                !.asked = imagePrompt(calls[i].text)]
                    ELSE tryFailed(calls[i], "fetch")]
    /\ UNCHANGED <<sliceVars, dels, keyVars, selVars, viewVars, storeVars, draftVars, loading, aiLoading,
                   alerts, fwd>>

\* generateContent, result.response and text() settle, lines 217-228, 250-252
Generated(i, ok) ==
    /\ calls[i].pc = "generate"
    /\ calls' = [calls EXCEPT ![i] =
                    IF ok THEN [calls[i] EXCEPT !.pc = "saveAI", !.reply = AiText]
                    ELSE tryFailed(calls[i], "generate")]
    /\ UNCHANGED <<sliceVars, dels, keyVars, selVars, viewVars, storeVars, draftVars, loading, aiLoading,
                   alerts, fwd>>

\* addDoc of the assistant's message settles, lines 237, 246, 261, then 276, 299-305
AssistantSaved(i, ok) ==
    /\ calls[i].pc = "saveAI"
    /\ IF ok
       THEN /\ clock' = clock + 1
            /\ aiDocs' = Append(aiDocs, StoredBy(aiMessage(Me, calls[i].reply), clock', i))
            /\ aiLoading' = FALSE
            /\ Finish(i, calls[i], "success")
       ELSE /\ calls' = [calls EXCEPT ![i] = tryFailed(calls[i], "saveAI")]
            /\ UNCHANGED <<clock, aiDocs, aiLoading, draftVars, loading, alerts>>
    /\ UNCHANGED <<sliceVars, dels, keyVars, selVars, viewVars, msgDocs, conversations, fwd>>

\* addDoc of the error message settles, line 274, then 276, 299-305 or the outer catch
ErrorSaved(i, ok) ==
    /\ calls[i].pc = "saveError"
    /\ IF ok
       THEN /\ clock' = clock + 1
            /\ aiDocs' = Append(aiDocs, StoredBy(errorMessage(Me), clock', i))
            /\ aiLoading' = FALSE
            /\ Finish(i, calls[i], "success")
       ELSE /\ Finish(i, Failing(calls[i], "saveError"), "failed")
            /\ UNCHANGED <<clock, aiDocs, aiLoading>>
    /\ UNCHANGED <<sliceVars, dels, keyVars, selVars, viewVars, msgDocs, conversations, fwd>>

\* addDoc of a user or group message settles, lines 279-305
MessageAppended(i, ok) ==
    /\ calls[i].pc = "append"
    /\ IF ok
       THEN /\ clock' = clock + 1
            /\ msgDocs' = Append(msgDocs,
                   StoredBy(messageData(Me, calls[i].text, calls[i].fileData,
                                        calls[i].sel.user, calls[i].sel.group), clock', i))
            /\ Finish(i, calls[i], "success")
       ELSE /\ Finish(i, Failing(calls[i], "append"), "failed")
            /\ UNCHANGED <<clock, msgDocs>>
    /\ UNCHANGED <<sliceVars, dels, keyVars, selVars, viewVars, aiDocs, conversations, aiLoading, fwd>>

\* No handleSubmit call is between its first await and its return.
NoneInFlight == \A i \in 1..Len(calls) : calls[i].pc = "done"

\* setNewMessage, line 438.  MessageInput is handed loading || aiLoading (line 441);
\* the draft is edited between submits, and a submit made again before the page
\* re-renders carries the same draft.
setNewMessage(text) ==
    /\ NoneInFlight
    /\ newMessage' = text
    /\ UNCHANGED <<sliceVars, dels, keyVars, selVars, viewVars, storeVars, selectedFile, submitVars, alerts, fwd>>

\* onFileSelect, line 443
onFileSelect(file) ==
    /\ NoneInFlight
    /\ selectedFile' = file
    /\ UNCHANGED <<sliceVars, dels, keyVars, selVars, viewVars, storeVars, newMessage, submitVars, alerts, fwd>>

----------------------------------------------------------------------------
(* handleForwardMessage, lines 337-379 *)

\* A recipient id that makes a document path invalid
MalformedUid == <<"/">>

Recipients == Peers \cup {MalformedUid}

\* The lists of up to n members of S, each picked once, in the order picked
RECURSIVE ListsUpTo(_, _)
ListsUpTo(S, n) ==
    IF n = 0 THEN {<< >>}
    ELSE LET shorter == ListsUpTo(S, n - 1)
             longest == {m \in shorter : Len(m) = n - 1}
         IN  shorter \cup UNION {{Append(l, x) : x \in S \ Range(l)} : l \in longest}

\* recipientIds: the recipients picked, or one peer named twice
RecipientLists == ListsUpTo(Recipients, MaxRecipients) \cup {<<uid, uid>> : uid \in Peers}

\* The messages a user can forward: one of a peer, one of the assistant, one with a file only
ForwardableMessages ==
    { [text |-> Hi, uid |-> Peer1, fileData |-> NoFile, isAI |-> FALSE],
      [text |-> AiText, userId |-> Me, isAI |-> TRUE],
      [text |-> Null, uid |-> Peer2, fileData |-> uploadedFileData(PdfFile), isAI |-> FALSE] }

Field(m, name, default) == IF name \in DOMAIN m THEN m[name] ELSE default

\* doc(db, 'conversations', id) throws when id does not name a document
ValidDocId(id) == id # << >> /\ "/" \notin Range(id)

\* The forwarded message, lines 348-359 (photoURL and displayName are left out)
forwardedMessage(message, authUid, uid) ==
    [text |-> message.text,
     uid |-> authUid,
     forwarded |-> TRUE,
     originalSender |-> IF Truthy(Field(message, "uid", Null)) THEN message.uid
                        ELSE IF message.isAI THEN <<"AI">> ELSE <<"Unknown">>,
     fileData |-> Field(message, "fileData", NoFile),
     conversationId |-> conversationKey(authUid, uid),
     receiverId |-> uid]

\* convoData, lines 363-368
convoData(message, authUid, uid) ==
    [participants |-> participantsOf(authUid, uid),
     lastMessage |-> IF Truthy(message.text) THEN message.text
                     ELSE IF Field(message, "fileData", NoFile) # NoFile
                     THEN <<"clip ">> \o message.fileData.name
                     ELSE <<"File">>,
     unreadCount |-> (uid :> 1)]

\* The two writes one recipient adds to the batch, lines 347-370
writesFor(message, authUid, uid) ==
    << [op |-> "set", coll |-> "messages", data |-> forwardedMessage(message, authUid, uid)],
       [op |-> "merge", coll |-> "conversations", id |-> conversationKey(authUid, uid),
        data |-> convoData(message, authUid, uid)] >>

\* The loop of lines 342-371: the batch, or thrown when a recipient's path is invalid
RECURSIVE batchFor(_, _, _)
batchFor(message, authUid, recipientIds) ==
    IF recipientIds = << >> THEN [thrown |-> FALSE, writes |-> << >>]
    ELSE LET uid  == Head(recipientIds)
             rest == batchFor(message, authUid, Tail(recipientIds))
         IN  IF ~ValidDocId(conversationKey(authUid, uid)) \/ rest.thrown
             THEN [thrown |-> TRUE, writes |-> << >>]
             ELSE [thrown |-> FALSE, writes |-> writesFor(message, authUid, uid) \o rest.writes]

NoDoc == [null |-> TRUE]

\* The fields of a stored document; a document that does not exist has none
FieldsOf(old) == IF old = NoDoc THEN << >> ELSE old

\* set(ref, data) without merge: the stored document becomes data
Replaced(old, data, now) ==
    [participants |-> data.participants,
     lastMessage |-> data.lastMessage,
     lastMessageTimestamp |-> now,
     unreadCount |-> data.unreadCount]

\* set(ref, data, {merge: true}): the fields of data replace those of the stored
\* document, a map field is merged key by key, every other stored field stays.
Merged(old, data, now) ==
    [participants |-> data.participants,
     lastMessage |-> data.lastMessage,
     lastMessageTimestamp |-> now,
     unreadCount |-> data.unreadCount @@ Field(old, "unreadCount", << >>)] @@ FieldsOf(old)

StoredConversation(convs, id) == IF id \in DOMAIN convs THEN convs[id] ELSE NoDoc

\* A store in which a forwarded message is filed under its conversation instead
\* of under a fresh id: a second one for the same conversation replaces the first.
RECURSIVE AppliedKeyedByConversation(_, _, _, _)
AppliedKeyedByConversation(store, writes, now, k) ==
    IF writes = << >> THEN store
    ELSE LET w == Head(writes)
             next ==
                 IF w.op = "set"
                 THEN [store EXCEPT
                          !.lastId = @ + 1,
                          !.docs = Append(SelectSeq(@, LAMBDA d :
                                              d.conversationId # w.data.conversationId),
                                          w.data @@ [id |-> store.lastId + 1,
                                                     timestamp |-> now, forward |-> k])]
                 ELSE [store EXCEPT
                          !.convs = (w.id :> Merged(StoredConversation(@, w.id), w.data, now))
                                        @@ @]
         IN  AppliedKeyedByConversation(next, Tail(writes), now, k)

\* The store after the writes of a batch, applied in order at server time now.
\* A message gets the next free id; k is the forward call, kept with the document
\* for the record, as turn is.
RECURSIVE Applied(_, _, _, _)
Applied(store, writes, now, k) ==
    IF writes = << >> THEN store
    ELSE LET w == Head(writes)
             next ==
                 IF w.op = "set"
                 THEN [store EXCEPT
                          !.lastId = @ + 1,
                          !.docs = Append(@, w.data @@ [id |-> store.lastId + 1,
                                                        timestamp |-> now, forward |-> k])]
                 ELSE [store EXCEPT
                          !.convs = (w.id :> Merged(StoredConversation(@, w.id), w.data, now))
                                        @@ @]
         IN  Applied(next, Tail(writes), now, k)

\* A batch whose writes reach the store one by one, up to the first the store rejects
\* (here: the last), instead of all or none
AppliedUpToRejected(store, writes, now, k) ==
    Applied(store, IF writes = << >> THEN writes ELSE SubSeq(writes, 1, Len(writes) - 1), now, k)

\* What a rejected commit leaves in the store, line 373: nothing of the batch
afterRejectedCommit(store, writes, now, k) == store

\* What an accepted commit leaves in the store, line 373: every write of the batch
afterCommit(store, writes, now, k) == Applied(store, writes, now, k)

CurrentStore == [docs |-> msgDocs, convs |-> conversations, lastId |-> clock]

StoreBecomes(store) ==
    /\ msgDocs' = store.docs
    /\ conversations' = store.convs
    /\ clock' = IF store.lastId > clock THEN store.lastId ELSE clock + 1

\* handleForwardMessage up to the await of line 373, or to its catch when the loop throws
handleForwardMessage(message, recipientIds) ==
    /\ Len(fwd) < MaxForwards
    /\ LET batch == batchFor(message, Me, recipientIds)
       IN  IF batch.thrown
           THEN /\ fwd' = Append(fwd, [pc |-> "done", outcome |-> "failed",
                                       recipientIds |-> recipientIds, writes |-> << >>])
                /\ alerts' = alerts + 1
           ELSE /\ fwd' = Append(fwd, [pc |-> "commit", outcome |-> "running",
                                       recipientIds |-> recipientIds, writes |-> batch.writes])
                /\ UNCHANGED alerts
    /\ UNCHANGED <<sliceVars, dels, keyVars, selVars, viewVars, storeVars, draftVars, submitVars>>

\* batch.commit() settles, lines 373-378
BatchSettled(k, ok) ==
    /\ fwd[k].pc = "commit"
    /\ IF ok
       THEN /\ StoreBecomes(afterCommit(CurrentStore, fwd[k].writes, clock + 1, k))
            /\ fwd' = [fwd EXCEPT ![k] = [fwd[k] EXCEPT !.pc = "done", !.outcome = "committed"]]
            /\ UNCHANGED alerts
       ELSE /\ StoreBecomes(afterRejectedCommit(CurrentStore, fwd[k].writes, clock + 1, k))
            /\ fwd' = [fwd EXCEPT ![k] = [fwd[k] EXCEPT !.pc = "done", !.outcome = "failed"]]
            /\ alerts' = alerts + 1
    /\ UNCHANGED <<sliceVars, dels, keyVars, selVars, viewVars, aiDocs, draftVars, submitVars>>

----------------------------------------------------------------------------
(* The snapshot callbacks of the five subscriptions, lines 52-62, 75-81,     *)
(* 116-124, 134-143, 153-158, as functions of the page's slices.             *)

\* null or undefined where the value, when there is one, is a user's record
NoUser == [null |-> TRUE]

\* snapshot.val() of a key that holds nothing
NoData == [null |-> TRUE]

CurrentSlices ==
    [users |-> users, currentUserData |-> currentUserData, groups |-> groups,
     messages |-> messages, userStatus |-> userStatus, typingStatus |-> typingStatus]

SlicesBecome(st) ==
    /\ users' = st.users
    /\ currentUserData' = st.currentUserData
    /\ groups' = st.groups
    /\ messages' = st.messages
    /\ userStatus' = st.userStatus
    /\ typingStatus' = st.typingStatus

\* usersData.find(u => u.uid === uid), line 59: the first match, or undefined
Find(usersData, uid) ==
    IF \E i \in 1..Len(usersData) : usersData[i].uid = uid
    THEN usersData[CHOOSE i \in 1..Len(usersData) :
                      usersData[i].uid = uid /\ \A j \in 1..(i - 1) : usersData[j].uid # uid]
    ELSE NoUser

\* The users callback, lines 52-62; auth is auth.currentUser when it runs
onUsers(st, usersData, auth) ==
    [st EXCEPT !.users = usersData,
               !.currentUserData = IF Truthy(auth) THEN Find(usersData, auth) ELSE @]

\* The groups callback, lines 75-81
onGroups(st, groupsData) == [st EXCEPT !.groups = groupsData]

\* The messages callback, lines 116-124
onMessages(st, docs) == [st EXCEPT !.messages = [i \in 1..Len(docs) |-> snapshotDoc(docs[i])]]

\* The presence callback, lines 134-143, of the effect run for uid
onStatus(st, uid, data) ==
    [st EXCEPT !.userStatus =
        (uid :> [status |-> IF data # NoData THEN data.status ELSE "offline",
                 lastChanged |-> IF data # NoData THEN data.lastChanged ELSE 0]) @@ @]

\* A typing callback that stores its value with setUserStatus
onTypingIntoStatus(st, uid, val) == [st EXCEPT !.userStatus = (uid :> val) @@ @]

\* The typing callback, lines 153-158, of the effect run for uid
onTyping(st, uid, val) == [st EXCEPT !.typingStatus = (uid :> val) @@ @]

\* What each subscription delivers as its j-th snapshot
UserDoc(uid, rev) == [id |-> uid, uid |-> uid, rev |-> rev]

UsersSnapshot(j) ==
    IF j % 2 = 1 THEN <<UserDoc(Peer1, j), UserDoc(Me, j)>>
    ELSE <<UserDoc(Peer1, j), UserDoc(Peer2, j)>>

GroupsSnapshot(j) == [i \in 1..j |-> [id |-> Group1, members |-> {Me, Peer1}, rev |-> i]]

\* The 'messages' collection when the conversation with Peer1 holds j messages
StoreAt(j) == SubSeq(History, 1, j)

MessagesSnapshot(q, j) == Limit(OrderByTimestampAsc(Where(StoreAt(j), q.field, q.value)), QueryLimit)

PresenceData(j) == IF j % 2 = 1 THEN [status |-> "online", lastChanged |-> j] ELSE NoData

TypingValue(j) == [typing |-> (j % 2 = 1), rev |-> j]

Delivers(stream) ==
    /\ delivered[stream] < MaxSnapshots
    /\ delivered' = [delivered EXCEPT ![stream] = @ + 1]

UsersDelivered ==
    /\ Delivers("users")
    /\ SlicesBecome(onUsers(CurrentSlices, UsersSnapshot(delivered'["users"]), authUser))
    /\ UNCHANGED <<authUser, dels, keyVars, selVars, effectPending, msgSub, listeners,
                   storeVars, draftVars, submitVars, alerts, fwd>>

GroupsDelivered ==
    /\ Delivers("groups")
    /\ SlicesBecome(onGroups(CurrentSlices, GroupsSnapshot(delivered'["groups"])))
    /\ UNCHANGED <<authUser, dels, keyVars, selVars, effectPending, msgSub, listeners,
                   storeVars, draftVars, submitVars, alerts, fwd>>

\* The conversation gets its next message and the listener its snapshot
MessagesDelivered ==
    /\ Delivers("messages")
    /\ \E j \in 1..Len(listeners) :
          SlicesBecome(onMessages(CurrentSlices,
                                  MessagesSnapshot(listeners[j], delivered'["messages"])))
    /\ msgDocs' = StoreAt(delivered'["messages"])
    /\ UNCHANGED <<authUser, dels, keyVars, selVars, effectPending, msgSub, listeners,
                   aiDocs, conversations, clock, draftVars, submitVars, alerts, fwd>>

PresenceDelivered ==
    /\ Truthy(selectedUser)
    /\ Delivers("presence")
    /\ SlicesBecome(onStatus(CurrentSlices, selectedUser, PresenceData(delivered'["presence"])))
    /\ UNCHANGED <<authUser, dels, keyVars, selVars, effectPending, msgSub, listeners,
                   storeVars, draftVars, submitVars, alerts, fwd>>

TypingDelivered ==
    /\ Truthy(selectedUser)
    /\ Delivers("typing")
    /\ SlicesBecome(onTyping(CurrentSlices, selectedUser, TypingValue(delivered'["typing"])))
    /\ UNCHANGED <<authUser, dels, keyVars, selVars, effectPending, msgSub, listeners,
                   storeVars, draftVars, submitVars, alerts, fwd>>

\* auth.currentUser becomes another user, or null on sign-out.  No effect of
\* the page has it among its dependencies (lines 64, 84, 127, 146, 161).
AuthChanged(uid) ==
    /\ uid # authUser
    /\ authUser' = uid
    /\ UNCHANGED <<users, groups, currentUserData, userStatus, typingStatus, delivered>>
    /\ UNCHANGED <<dels, keyVars, selVars, viewVars, storeVars, draftVars, submitVars,
                   alerts, fwd>>

----------------------------------------------------------------------------
(* handleDeleteMessage, lines 319-334 *)

\* A reference that is always into 'messages', whatever isAI says
messageRefIgnoringFlag(messageId, isAI) == [coll |-> "messages", id |-> messageId]

\* messageRef, lines 321-326
messageRef(messageId, isAI) ==
    [coll |-> IF isAI THEN "aiMessages" ELSE "messages", id |-> messageId]

\* deleteDoc(ref) on the documents of ref's collection: the one with ref's id is
\* gone; when there is none, nothing changes and the call still succeeds.
Deleted(docs, id) == SelectSeq(docs, LAMBDA d : d.id # id)

\* handleDeleteMessage up to its await, lines 319-328
handleDeleteMessage(messageId, isAI) ==
    /\ Len(dels) < MaxDeletes
    /\ dels' = Append(dels, [messageId |-> messageId, isAI |-> isAI,
                             ref |-> messageRef(messageId, isAI),
                             pc |-> "delete", outcome |-> "running"])
    /\ UNCHANGED <<sliceVars, keyVars, selVars, viewVars, storeVars, draftVars, submitVars,
                   alerts, fwd>>

\* deleteDoc settles, lines 328-333: the catch only logs
DeleteSettled(k, ok) ==
    /\ dels[k].pc = "delete"
    /\ IF ok
       THEN /\ msgDocs' = IF dels[k].ref.coll = "messages"
                          THEN Deleted(msgDocs, dels[k].ref.id) ELSE msgDocs
            /\ aiDocs' = IF dels[k].ref.coll = "aiMessages"
                         THEN Deleted(aiDocs, dels[k].ref.id) ELSE aiDocs
            /\ dels' = [dels EXCEPT ![k] = [dels[k] EXCEPT !.pc = "done", !.outcome = "deleted"]]
       ELSE /\ UNCHANGED <<msgDocs, aiDocs>>
            /\ dels' = [dels EXCEPT ![k] = [dels[k] EXCEPT !.pc = "done", !.outcome = "failed"]]
    /\ UNCHANGED <<sliceVars, keyVars, selVars, viewVars, conversations, clock, draftVars,
                   submitVars, alerts, fwd>>

----------------------------------------------------------------------------
(* Initial states *)

InitKey == keyA = NoKey /\ keyB = NoKey

InitSelection ==
    /\ selectedUser = Null
    /\ selectedGroup = Null
    /\ selectedAI = FALSE

\* Mounted: the messages effect is due for its first run.
InitView ==
    /\ effectPending = TRUE
    /\ msgSub = NoSub
    /\ listeners = << >>
    /\ messages = << >>

\* Signed in as Me; no snapshot of the users, groups, presence or typing
\* subscriptions has arrived.
InitSlices ==
    /\ authUser = Me
    /\ users = << >>
    /\ groups = << >>
    /\ currentUserData = NoUser
    /\ userStatus = << >>
    /\ typingStatus = << >>
    /\ delivered = [s \in Streams |-> 0]

InitStoreEmpty ==
    /\ msgDocs = << >>
    /\ aiDocs = << >>
    /\ conversations = << >>
    /\ clock = Preloaded

InitDraft == newMessage = Null /\ selectedFile = NoFile

InitSubmit ==
    /\ loading = FALSE
    /\ aiLoading = FALSE
    /\ calls = << >>
    /\ alerts = 0

InitForward == fwd = << >>

InitDelete == dels = << >>

----------------------------------------------------------------------------
(* Spec: the selection, the messages effect and the store it listens to *)

Init ==
    /\ InitKey /\ InitSelection /\ InitView /\ InitDraft /\ InitSubmit /\ InitForward
    /\ InitSlices /\ InitDelete
    /\ msgDocs \in {<< >>, History}
    /\ aiDocs = << >>
    /\ conversations = << >>
    /\ clock = Preloaded

Next ==
    \/ \E user \in Peers : onUserSelect(user)
    \/ \E group \in Groups : onGroupSelect(group)
    \/ \E page \in Pages : handleNavigate(page)
    \/ MessagesEffect
    \/ SnapshotDelivered
    \/ \E sender \in Peers : PeerSubmit(sender, Me, Null)
    \/ \E sender \in Peers : PeerSubmit(sender, Null, Group1)

Spec == Init /\ [][Next]_vars

----------------------------------------------------------------------------
(* SpecKey: the conversation key as a function of its two uids *)

NextKey == DeriveAtQuery \/ DeriveAtSend \/ DeriveAtForward

InitKeySpec ==
    /\ InitKey /\ InitSelection /\ InitView /\ InitStoreEmpty /\ InitDraft
    /\ InitSubmit /\ InitForward /\ InitSlices /\ InitDelete

SpecKey == InitKeySpec /\ [][NextKey]_vars

----------------------------------------------------------------------------
(* C1: conversation keys (SpecKey) *)

BothDerived == keyA # NoKey /\ keyB # NoKey

SamePair(k, l) == {k.authUid, k.uid} = {l.authUid, l.uid}

SeparatorFree(uid) == "_" \notin Range(uid)

\* C1 as claimed: over all uids, whichever of the query, handleSubmit and
\* handleForwardMessage derives them, two keys are equal exactly when they are
\* derived from the same unordered pair of uids (the same key for (A,B) and
\* (B,A) at every place, and no key shared by two distinct pairs).
C1_KeyIffSamePair ==
    BothDerived => (SamePair(keyA, keyB) <=> keyA.key = keyB.key)

\* C1 as amended: the same unordered pair gives the same key at every place and
\* in either order, and two distinct unordered pairs of uids that do not contain
\* the separator '_' never get the same key.
C1_KeySymmetricAndInjectiveWithoutSeparator ==
    BothDerived =>
        /\ SamePair(keyA, keyB) => keyA.key = keyB.key
        /\ ( /\ \A uid \in {keyA.authUid, keyA.uid, keyB.authUid, keyB.uid} : SeparatorFree(uid)
             /\ keyA.key = keyB.key )
           => SamePair(keyA, keyB)

\* The query of B's page for A and the send of A's page to B, A # B, agree on the key.
C1_Witness ==
    /\ keyA.site = "query" /\ keyB.site = "send"
    /\ keyA.authUid = keyB.uid /\ keyA.uid = keyB.authUid
    /\ keyA.authUid # keyA.uid
    /\ SeparatorFree(keyA.authUid) /\ SeparatorFree(keyA.uid)
    /\ keyA.key = keyB.key

----------------------------------------------------------------------------
(* C2: the selection is exclusive (Spec) *)

NumberSelected ==
    (IF Truthy(selectedUser) THEN 1 ELSE 0) + (IF Truthy(selectedGroup) THEN 1 ELSE 0)
        + (IF selectedAI THEN 1 ELSE 0)

\* C2: in every state at most one of selectedUser, selectedGroup and selectedAI
\* is set, and a step of onUserSelect, onGroupSelect or handleNavigate('ai')
\* ends with exactly one set, the one chosen.
C2_SelectionExclusive ==
    /\ [](NumberSelected <= 1)
    /\ [][ /\ \A user \in Peers : onUserSelect(user) =>
                   (NumberSelected' = 1 /\ selectedUser' = user)
           /\ \A group \in Groups : onGroupSelect(group) =>
                   (NumberSelected' = 1 /\ selectedGroup' = group)
           /\ handleNavigate("ai") => (NumberSelected' = 1 /\ selectedAI') ]_vars

\* The assistant was chosen while a user was selected, and the user is cleared.
C2_Witness ==
    /\ selectedAI /\ selectedUser = Null /\ selectedGroup = Null
    /\ msgSub.field = "conversationId"
    /\ effectPending

----------------------------------------------------------------------------
(* C3: switching the target (Spec) *)

Matches(d, q) == q.field \in DOMAIN d /\ d[q.field] = q.value

\* C3: once the messages effect has run for the selected target, messages holds
\* no message of another target.
C3_NoStaleMessagesAfterSwitch ==
    (~effectPending /\ NumberSelected = 1) =>
        \A i \in 1..Len(messages) :
            Matches(messages[i], messagesQuery(Me, selectedUser, selectedGroup, selectedAI))

----------------------------------------------------------------------------
(* C4: the window of a snapshot (Spec) *)

AscendingByTimestamp(docs) ==
    \A i \in 1..Len(docs) - 1 : docs[i].timestamp <= docs[i + 1].timestamp

IdsOf(docs) == {docs[i].id : i \in 1..Len(docs)}

\* The ids of the n documents of the target with the largest timestamps
MostRecentIds(q, n) ==
    LET all == Where(Collection(q), q.field, q.value)
    IN  {d.id : d \in {e \in Range(all) :
                          Cardinality({f \in Range(all) : DocBefore(e, f)}) < n}}

\* C4: every snapshot delivered is ordered by timestamp ascending and, when the
\* target has more than QueryLimit messages, holds the most recent QueryLimit.
C4_SnapshotIsMostRecentWindow ==
    [][SnapshotDelivered =>
          /\ AscendingByTimestamp(messages')
          /\ IdsOf(messages') = MostRecentIds(msgSub, QueryLimit)]_vars

----------------------------------------------------------------------------
(* SpecSubmit: handleSubmit under a selection that stays as it is *)

Selections == {Selection(Null, Null, FALSE), Selection(Peer1, Null, FALSE),
               Selection(Null, Group1, FALSE), Selection(Null, Null, TRUE)}

InitSubmitSpec ==
    /\ InitKey /\ InitStoreEmpty /\ InitDraft /\ InitSubmit /\ InitForward /\ InitSlices
    /\ InitDelete
    /\ \E sel \in Selections :
          /\ selectedUser = sel.user
          /\ selectedGroup = sel.group
          /\ selectedAI = sel.ai
          /\ msgSub = messagesQuery(Me, sel.user, sel.group, sel.ai)
          /\ listeners = Subscribed(<< >>, msgSub)
    /\ effectPending = FALSE
    /\ messages = << >>

NextSubmit ==
    \/ handleSubmit
    \/ \E i \in 1..Len(calls), ok \in BOOLEAN : UploadSettled(i, ok)
    \/ \E i \in 1..Len(calls), ok \in BOOLEAN : UserTurnSaved(i, ok)
    \/ \E i \in 1..Len(calls), ok \in BOOLEAN : ImageFetched(i, ok)
    \/ \E i \in 1..Len(calls), ok \in BOOLEAN : Generated(i, ok)
    \/ \E i \in 1..Len(calls), ok \in BOOLEAN : AssistantSaved(i, ok)
    \/ \E i \in 1..Len(calls), ok \in BOOLEAN : ErrorSaved(i, ok)
    \/ \E i \in 1..Len(calls), ok \in BOOLEAN : MessageAppended(i, ok)
    \/ \E text \in Texts : setNewMessage(text)
    \/ \E file \in Files \cup {NoFile} : onFileSelect(file)

SpecSubmit == InitSubmitSpec /\ [][NextSubmit]_vars

----------------------------------------------------------------------------
(* The AI turns of SpecSubmit *)

CallIds == 1..Len(calls)

\* The user's message of turn i, when handleSubmit has persisted it
UserTurns(i) == {d \in Range(aiDocs) : d.turn = i /\ ~d.isAI}

\* The turns whose user message is in the AI stream
AiTurns == {i \in CallIds : UserTurns(i) # {}}

\* The isAI = true messages persisted for turn i
Replies(i) == {d \in Range(aiDocs) : d.turn = i /\ d.isAI}

IsError(d) == "isError" \in DOMAIN d /\ d.isError

Done(i) == calls[i].pc = "done"

\* The steps of the try block of lines 200-262
TrySteps == {"fetch", "generate", "saveAI"}

\* The steps whose failure reaches the catch of lines 301-304
SurfacingSteps == {"upload", "saveUser", "saveError", "append"}

\* The upload and every store append of handleSubmit
UploadAndAppendSteps == {"upload", "saveUser", "saveAI", "saveError", "append"}

\* Call i returns in this step.
Returns(i) == i \in CallIds /\ ~Done(i) /\ calls'[i].pc = "done"

DraftKept == newMessage' = newMessage /\ selectedFile' = selectedFile

DraftCleared == newMessage' = Null /\ selectedFile' = NoFile

----------------------------------------------------------------------------
(* C5: one assistant message for each AI turn (SpecSubmit) *)

\* C5 as claimed: a persisted AI user turn never has two isAI = true messages,
\* and once its handleSubmit call has returned it has exactly one.
C5_ExactlyOneReplyPerTurn ==
    \A i \in AiTurns :
        /\ Cardinality(Replies(i)) <= 1
        /\ Done(i) => Cardinality(Replies(i)) = 1

\* C5 as amended: a persisted AI user turn never has two isAI = true messages,
\* and once its handleSubmit call has returned it has exactly one, unless the
\* store rejected the append of the error message: then it has none.
C5_ExactlyOneReplyUnlessErrorAppendRejected ==
    \A i \in AiTurns :
        /\ Cardinality(Replies(i)) <= 1
        /\ Done(i) =>
              Cardinality(Replies(i)) = (IF "saveError" \in calls[i].failed THEN 0 ELSE 1)

\* A turn whose generation call failed has returned with its one message.
C5_Witness ==
    \E i \in AiTurns :
        Done(i) /\ "generate" \in calls[i].failed /\ Cardinality(Replies(i)) = 1

----------------------------------------------------------------------------
(* C6: when the assistant message is an error message (SpecSubmit) *)

\* C6 as claimed: an assistant message has isError = true exactly when the
\* generation call of its turn failed.
C6_ErrorIffGenerationFailed ==
    \A d \in Range(aiDocs) :
        d.isAI => (IsError(d) <=> "generate" \in calls[d.turn].failed)

\* C6 as amended: an assistant message has isError = true exactly when a step
\* of the try block of its turn failed: fetching the image, the generation
\* call, or saving the assistant's reply.
C6_ErrorIffTryBlockFailed ==
    \A d \in Range(aiDocs) :
        d.isAI => (IsError(d) <=> calls[d.turn].failed \cap TrySteps # {})

\* An error message is in the stream for a turn whose generation call failed.
C6_Witness ==
    \E d \in Range(aiDocs) :
        d.isAI /\ IsError(d) /\ calls[d.turn].failed = {"generate"}

----------------------------------------------------------------------------
(* C8: a failed submit (SpecSubmit) *)

\* C8 as claimed: a call in which the upload or any store append failed returns
\* with one more alert and the draft as it was; any other call returns with the
\* draft cleared and no alert; a step of a call that does not return leaves the draft.
C8_AnyFailedAppendNotifiesAndKeepsDraft ==
    [][\A i \in CallIds :
          /\ Returns(i) =>
                IF calls'[i].failed \cap UploadAndAppendSteps # {}
                THEN alerts' = alerts + 1 /\ DraftKept
                ELSE alerts' = alerts /\ DraftCleared
          /\ (calls'[i] # calls[i] /\ ~Returns(i)) => (DraftKept /\ alerts' = alerts)]_vars

\* C8 as amended: a call in which the upload, the append of the user's message
\* or the append of the error message failed returns with one more alert and the
\* draft as it was; any other call, one whose append of the assistant's reply
\* failed included, returns with the draft cleared and no alert; a step of a call
\* that does not return leaves the draft.
C8_SurfacedFailureNotifiesAndKeepsDraft ==
    [][\A i \in CallIds :
          /\ Returns(i) =>
                IF calls'[i].failed \cap SurfacingSteps # {}
                THEN alerts' = alerts + 1 /\ DraftKept /\ calls'[i].outcome = "failed"
                ELSE alerts' = alerts /\ DraftCleared /\ calls'[i].outcome = "success"
          /\ (calls'[i] # calls[i] /\ ~Returns(i)) => (DraftKept /\ alerts' = alerts)]_vars

\* The upload failed: one alert, and the file is still in the draft.
C8_Witness ==
    \E i \in CallIds :
        /\ Done(i) /\ calls[i].failed = {"upload"}
        /\ alerts = 1 /\ selectedFile # NoFile

----------------------------------------------------------------------------
(* C9: a failed generation call (SpecSubmit) *)

HasErrorReply(i) == \E d \in Replies(i) : IsError(d)

\* C9 as claimed: a call whose generation call failed goes on to save the error
\* message, and returns on the success path with the error message persisted.
C9_GenerationFailureAbsorbed ==
    \A i \in CallIds :
        "generate" \in calls[i].failed =>
            /\ calls[i].pc \in {"saveError", "done"}
            /\ Done(i) => (calls[i].outcome = "success" /\ HasErrorReply(i))

\* C9 as amended: a call whose generation call failed goes on to save the error
\* message; when that append succeeds it returns on the success path with the
\* error message persisted, and when the store rejects that append it returns
\* through the outer catch, with the alert and no assistant message.
C9_GenerationFailureAbsorbedIfErrorSaved ==
    \A i \in CallIds :
        "generate" \in calls[i].failed =>
            /\ calls[i].pc \in {"saveError", "done"}
            /\ Done(i) =>
                  IF "saveError" \in calls[i].failed
                  THEN calls[i].outcome = "failed" /\ Replies(i) = {}
                  ELSE calls[i].outcome = "success" /\ HasErrorReply(i)

\* The generation call failed, the error message is saved, and nothing was alerted.
C9_Witness ==
    \E i \in CallIds :
        /\ Done(i) /\ calls[i].failed = {"generate"} /\ calls[i].outcome = "success"
        /\ HasErrorReply(i) /\ alerts = 0

----------------------------------------------------------------------------
(* C10: an AI turn with a file that is not an image (SpecSubmit) *)

\* The AI turns whose user message carries a file that is not an image
NonImageTurns ==
    {i \in AiTurns : \E u \in UserTurns(i) :
        u.fileData # NoFile /\ ~StartsWith(u.fileData.type, <<"image", "/">>)}

AcknowledgmentOf(i) ==
    LET u == CHOOSE u \in UserTurns(i) : TRUE
    IN  cannedAcknowledgment(u.fileData, u.text)

\* C10 as claimed: in a turn with a non-image file the backend is never asked,
\* and every assistant message of the turn is the canned acknowledgment.
C10_NonImageTurnAcknowledged ==
    \A i \in NonImageTurns :
        /\ calls[i].asked = Null
        /\ \A d \in Replies(i) : d.text = AcknowledgmentOf(i) /\ ~IsError(d)

\* C10 as amended: in a turn with a non-image file the backend is never asked,
\* and the assistant message of the turn is the canned acknowledgment, unless
\* the store rejected its append: then it is the error message.
C10_NonImageTurnAcknowledgedUnlessRejected ==
    \A i \in NonImageTurns :
        /\ calls[i].asked = Null
        /\ \A d \in Replies(i) :
              IF "saveAI" \in calls[i].failed
              THEN d.text = ApologyText /\ IsError(d)
              ELSE d.text = AcknowledgmentOf(i) /\ ~IsError(d)

\* A PDF and no text: the acknowledgment names the category and the file.
C10_Witness ==
    \E i \in NonImageTurns :
        /\ Done(i) /\ calls[i].asked = Null
        /\ \E d \in Replies(i) :
              d.text = <<"I received your ", "application", " file \"", "doc.pdf", "\". ",
                         "How can I help you with this file?">>

----------------------------------------------------------------------------
(* SpecForward: handleForwardMessage of one message picked in the list *)

\* The metadata of the conversation with Peer1 as an earlier session may have left it
EarlierConversation ==
    conversationKey(Me, Peer1) :>
        [participants |-> participantsOf(Me, Peer1), lastMessage |-> Hi,
         lastMessageTimestamp |-> Preloaded, unreadCount |-> (Me :> 2 @@ Peer1 :> 3),
         pinned |-> TRUE]

InitForwardSpec ==
    /\ InitKey /\ InitSelection /\ InitDraft /\ InitSubmit /\ InitForward /\ InitSlices
    /\ InitDelete
    /\ effectPending = FALSE /\ msgSub = NoSub /\ listeners = << >>
    /\ \E m \in ForwardableMessages : messages = <<m>>
    /\ msgDocs = << >>
    /\ aiDocs = << >>
    /\ conversations \in {<< >>, EarlierConversation}
    /\ clock = Preloaded

NextForward ==
    \/ \E recipientIds \in RecipientLists : handleForwardMessage(messages[1], recipientIds)
    \/ \E k \in 1..Len(fwd), ok \in BOOLEAN : BatchSettled(k, ok)

SpecForward == InitForwardSpec /\ [][NextForward]_vars

----------------------------------------------------------------------------
(* C7: a forward is all or nothing (SpecForward) *)

ForwardIds == 1..Len(fwd)

\* The message documents that forward call k put in the store
ForwardedBy(k) == {d \in Range(msgDocs) : "forward" \in DOMAIN d /\ d.forward = k}

\* Forward call k ends in this step, rejected: at the loop or at the commit.
ForwardFails(k) ==
    /\ k \in 1..Len(fwd') /\ fwd'[k].outcome = "failed"
    /\ (k \in ForwardIds => fwd[k].pc = "commit")

\* Every recipient of call k has its message document and its metadata, written at one time.
AllDelivered(k) ==
    /\ Cardinality(ForwardedBy(k)) = Len(fwd[k].recipientIds)
    /\ \A j \in 1..Len(fwd[k].recipientIds) :
          LET uid == fwd[k].recipientIds[j]
          IN  /\ Cardinality({d \in ForwardedBy(k) : d.receiverId = uid}) =
                     Cardinality({i \in 1..Len(fwd[k].recipientIds) :
                                     fwd[k].recipientIds[i] = uid})
              /\ conversationKey(Me, uid) \in DOMAIN conversations
              /\ uid \in DOMAIN conversations[conversationKey(Me, uid)].unreadCount

\* C7: a forward call that has ended committed has a message document and the
\* conversation metadata for every recipient of its list; a call that has not,
\* or that was rejected, has no message document; and the step in which a call
\* is rejected changes neither the messages nor any conversation metadata.
C7_ForwardAllOrNothing ==
    /\ [](\A k \in ForwardIds :
             IF fwd[k].outcome = "committed" THEN AllDelivered(k) ELSE ForwardedBy(k) = {})
    /\ [][\A k \in 1..Len(fwd') :
             ForwardFails(k) => (msgDocs' = msgDocs /\ conversations' = conversations)]_vars

\* A list whose second recipient is malformed was rejected, one whose recipients
\* are both valid was committed: the first left nothing, the second everything.
C7_Witness ==
    \E k, l \in ForwardIds :
        /\ fwd[k].outcome = "failed" /\ fwd[k].recipientIds = <<Peer1, MalformedUid>>
        /\ fwd[l].outcome = "committed" /\ fwd[l].recipientIds = <<Peer1, Peer2>>
        /\ Cardinality(ForwardedBy(l)) = Len(msgDocs)
        /\ Len(msgDocs) = Cardinality(DOMAIN conversations)

----------------------------------------------------------------------------
(* C14: one messages subscription at a time (Spec) *)

\* C14: in every state at most one messages listener is attached; a run of the
\* messages effect leaves attached only the listener it attaches itself (none
\* when nothing is selected), the previous one being detached first; and every
\* snapshot applied to messages comes from the listener of the effect's latest
\* run, never from one that was detached.
C14_OneSubscriptionNoStaleSnapshot ==
    /\ [](Len(listeners) <= 1)
    /\ [][MessagesEffect => listeners' = Subscribed(<< >>, msgSub')]_vars
    /\ [][\A j \in 1..Len(listeners) :
             listeners[j] # msgSub => ~SnapshotFrom(listeners[j])]_vars

\* The assistant was chosen after a full conversation with a user was shown: the
\* effect has run again and the only listener is the one of the AI stream.
C14_Witness ==
    /\ selectedAI /\ ~effectPending
    /\ msgSub.coll = "aiMessages" /\ listeners = <<msgSub>>
    /\ Len(messages) = QueryLimit

----------------------------------------------------------------------------
(* C13: a message sent to a user reaches that user's page (Spec).  Me is the *)
(* receiver B; a peer A has Me selected on its own page and sends.           *)

\* The messages that a sent to b
SentTo(a, b) ==
    {d \in Range(msgDocs) : "receiverId" \in DOMAIN d /\ d.uid = a /\ d.receiverId = b}

MinUid(a, b) == IF StrLess(b, a) THEN b ELSE a

MaxUid(a, b) == IF StrLess(b, a) THEN a ELSE b

\* C13: every message a peer A sent to Me is stored with conversationId
\* min(A,Me) + '_' + max(A,Me) and receiverId Me, and a snapshot that Me's
\* subscription delivers while A is selected contains every such message.
C13_SentMessageReachesReceiver ==
    /\ [](\A a \in Peers : \A d \in SentTo(a, Me) :
             d.conversationId = MinUid(a, Me) \o <<"_">> \o MaxUid(a, Me))
    /\ [][\A a \in Peers :
             (selectedUser = a /\ msgSub = messagesQuery(Me, a, Null, FALSE)
                  /\ SnapshotDelivered)
                 => \A d \in SentTo(a, Me) : d.id \in IdsOf(messages')]_vars

----------------------------------------------------------------------------
(* C12: AI turns under concurrent submits (SpecSubmit) *)

UserTurnAt(j) == j \in 1..Len(aiDocs) /\ ~aiDocs[j].isAI

\* C12: in the AI stream, in the order the messages were persisted, between a
\* user's message and the next user's message there is exactly one assistant
\* message, however the handleSubmit calls interleave.
C12_OneReplyBeforeNextUserTurn ==
    \A j, k \in 1..Len(aiDocs) :
        (j < k /\ UserTurnAt(j) /\ UserTurnAt(k) /\ \A m \in (j + 1)..(k - 1) : ~UserTurnAt(m))
            => k - j - 1 = 1

----------------------------------------------------------------------------
(* C15: the routing tag of a written message (SpecSubmit) *)

RoutingTags(d) == {"conversationId", "groupId", "userId"} \cap DOMAIN d

\* C15: a document written by handleSubmit carries exactly one of the tags
\* conversationId, groupId and userId, the one of the target selected when the
\* call was made: userId in aiMessages for the assistant (isAI = false on the
\* user's message), conversationId with receiverId in messages for a user,
\* groupId in messages for a group.
C15_ExactlyOneRoutingTag ==
    /\ \A d \in Range(aiDocs) :
          /\ RoutingTags(d) = {"userId"} /\ d.userId = Me
          /\ calls[d.turn].sel.ai
          /\ \E u \in UserTurns(d.turn) : u.id <= d.id
    /\ \A d \in Range(msgDocs) :
          LET sel == calls[d.turn].sel
          IN  /\ ~sel.ai
              /\ IF Truthy(sel.user)
                 THEN /\ RoutingTags(d) = {"conversationId"}
                      /\ d.conversationId = conversationKey(Me, sel.user)
                      /\ d.receiverId = sel.user
                 ELSE /\ RoutingTags(d) = {"groupId"}
                      /\ d.groupId = sel.group /\ Truthy(sel.group)
                      /\ "receiverId" \notin DOMAIN d

\* A message with a file went to the group.
C15_Witness ==
    \E d \in Range(msgDocs) :
        /\ RoutingTags(d) = {"groupId"} /\ d.groupId = Group1
        /\ d.fileData # NoFile /\ calls[d.turn].outcome = "success"

----------------------------------------------------------------------------
(* C20: the busy flags after handleSubmit (SpecSubmit) *)

\* C20: when every handleSubmit call made has finished, on whatever path,
\* loading and aiLoading are both false.
C20_FlagsClearedWhenFinished ==
    (calls # << >> /\ NoneInFlight) => (~loading /\ ~aiLoading)

----------------------------------------------------------------------------
(* C16: the conversation metadata after a forward (SpecForward) *)

\* Forward call k is committed in this step.
Commits(k) == k \in ForwardIds /\ fwd[k].pc = "commit" /\ fwd'[k].outcome = "committed"

RecipientsOf(k) == Range(fwd[k].recipientIds)

\* The fields convoData sets, lines 363-368
ForwardWrites == {"participants", "lastMessage", "lastMessageTimestamp", "unreadCount"}

\* C16: the step that commits a forward leaves, in the metadata of each
\* recipient's conversation, unreadCount[recipient] = 1, every other entry of
\* unreadCount and every field the forward does not write as they were, and the
\* metadata of every other conversation untouched; so after any number of
\* committed forwards to a recipient its unreadCount is 1.
C16_ForwardMergesMetadata ==
    /\ [][\A k \in ForwardIds : Commits(k) =>
             /\ \A uid \in RecipientsOf(k) :
                   LET id  == conversationKey(Me, uid)
                       old == FieldsOf(StoredConversation(conversations, id))
                       new == conversations'[id]
                   IN  /\ new.unreadCount[uid] = 1
                       /\ \A u \in DOMAIN Field(old, "unreadCount", << >>) \ RecipientsOf(k) :
                             u \in DOMAIN new.unreadCount
                                 /\ new.unreadCount[u] = old.unreadCount[u]
                       /\ \A f \in DOMAIN old \ ForwardWrites :
                             f \in DOMAIN new /\ new[f] = old[f]
                       /\ DOMAIN new = DOMAIN old \cup ForwardWrites
             /\ \A id \in DOMAIN conversations \ {conversationKey(Me, uid) : uid \in RecipientsOf(k)} :
                   id \in DOMAIN conversations' /\ conversations'[id] = conversations[id]]_vars
    /\ [](\A k \in ForwardIds : fwd[k].outcome = "committed" =>
             \A uid \in RecipientsOf(k) :
                 conversations[conversationKey(Me, uid)].unreadCount[uid] = 1)

\* Two forwards to Peer1 are committed: Peer1's count, 3 before, is 1, the
\* count of Me is still 2 and the field pinned is still there.
C16_Witness ==
    /\ Cardinality({k \in ForwardIds : fwd[k].outcome = "committed"
                                        /\ Peer1 \in RecipientsOf(k)}) = 2
    /\ LET c == conversations[conversationKey(Me, Peer1)]
       IN  /\ c.unreadCount[Peer1] = 1
           /\ Me \in DOMAIN c.unreadCount /\ c.unreadCount[Me] = 2
           /\ "pinned" \in DOMAIN c /\ c.pinned
           /\ c.lastMessageTimestamp > Preloaded

----------------------------------------------------------------------------
(* C17: no forwarded message is lost (SpecForward) *)

CommittedForwards == {k \in ForwardIds : fwd[k].outcome = "committed"}

\* The recipient entries of the committed calls: call and place in its list
RecipientEntries == {<<k, j>> \in ForwardIds \X (1..(MaxRecipients + 1)) :
                        k \in CommittedForwards /\ j <= Len(fwd[k].recipientIds)}

\* The places of msgDocs that hold a forwarded message
ForwardedPlaces == {i \in 1..Len(msgDocs) : Field(msgDocs[i], "forwarded", FALSE)}

\* The forwarded messages of conversation id
ForwardedIn(id) == {i \in ForwardedPlaces : msgDocs[i].conversationId = id}

\* C17: the forwarded message documents in the store are as many as the
\* recipient entries of all committed calls, duplicates counted; each committed
\* call has, for each recipient, as many documents with that receiverId as the
\* recipient has entries in its list; the documents have distinct ids; and a
\* conversation's lastMessageTimestamp is that of the last forward written to it.
C17_NoForwardedMessageLost ==
    /\ Cardinality(ForwardedPlaces) = Cardinality(RecipientEntries)
    /\ Cardinality({msgDocs[i].id : i \in ForwardedPlaces}) = Cardinality(ForwardedPlaces)
    /\ \A i \in ForwardedPlaces :
          /\ msgDocs[i].forward \in CommittedForwards
          /\ msgDocs[i].forwarded = TRUE
          /\ msgDocs[i].receiverId \in RecipientsOf(msgDocs[i].forward)
          /\ msgDocs[i].conversationId = conversationKey(Me, msgDocs[i].receiverId)
    /\ \A k \in CommittedForwards : \A uid \in RecipientsOf(k) :
          /\ Cardinality({i \in ForwardedPlaces :
                              msgDocs[i].forward = k /\ msgDocs[i].receiverId = uid})
                = Cardinality({j \in 1..Len(fwd[k].recipientIds) : fwd[k].recipientIds[j] = uid})
          /\ \A i \in ForwardedIn(conversationKey(Me, uid)) :
                msgDocs[i].timestamp <=
                    conversations[conversationKey(Me, uid)].lastMessageTimestamp
          /\ \E i \in ForwardedIn(conversationKey(Me, uid)) :
                msgDocs[i].timestamp =
                    conversations[conversationKey(Me, uid)].lastMessageTimestamp

\* Two calls that were both waiting for their commit, one to Peer1 twice and
\* one to Peer1 and Peer2, are committed: four forwarded messages, three to Peer1.
C17_Witness ==
    /\ Len(fwd) = 2
    /\ fwd[1].recipientIds = <<Peer1, Peer1>> /\ fwd[2].recipientIds = <<Peer1, Peer2>>
    /\ CommittedForwards = {1, 2}
    /\ Cardinality(ForwardedPlaces) = 4
    /\ Cardinality({i \in ForwardedPlaces : msgDocs[i].receiverId = Peer1}) = 3
    /\ msgDocs[1].forward = 2

----------------------------------------------------------------------------
(* SpecDelete: handleDeleteMessage of a message of the list shown *)

\* The store a session finds: two messages with Peer1 (the first is the
\* conversation's lastMessage), one of the group, and one turn with the assistant
StoredMessages ==
    << Stored(messageData(Peer1, Hi, NoFile, Me, Null), 1),
       Stored(messageData(Me, AiText, NoFile, Peer1, Null), 2),
       Stored(messageData(Peer1, Hi, NoFile, Null, Group1), 3) >>

StoredAiMessages ==
    << Stored(userMessage(Me, Hi, NoFile), 4), Stored(aiMessage(Me, AiText), 5) >>

InitDeleteSpec ==
    /\ InitKey /\ InitDraft /\ InitSubmit /\ InitForward /\ InitSlices /\ InitDelete
    /\ msgDocs = StoredMessages
    /\ aiDocs = StoredAiMessages
    /\ conversations = EarlierConversation
    /\ clock = Preloaded
    /\ \E sel \in Selections :
          /\ selectedUser = sel.user
          /\ selectedGroup = sel.group
          /\ selectedAI = sel.ai
          /\ msgSub = messagesQuery(Me, sel.user, sel.group, sel.ai)
          /\ listeners = Subscribed(<< >>, msgSub)
          /\ messages = IF msgSub = NoSub THEN << >> ELSE messagesData(msgSub)
    /\ effectPending = FALSE

NextDelete ==
    \/ \E i \in 1..Len(messages), isAI \in BOOLEAN : handleDeleteMessage(messages[i].id, isAI)
    \/ \E k \in 1..Len(dels), ok \in BOOLEAN : DeleteSettled(k, ok)
    \/ SnapshotDelivered

SpecDelete == InitDeleteSpec /\ [][NextDelete]_vars

----------------------------------------------------------------------------
(* C18: what a delete removes and what it leaves (SpecDelete) *)

DeleteIds == 1..Len(dels)

\* Delete call k settles in this step, accepted by the store.
DeleteSucceeds(k) == k \in DeleteIds /\ dels[k].pc = "delete" /\ dels'[k].outcome = "deleted"

\* after is before without the document of that id, the others as they were and in order
OnlyRemoved(before, after, id) ==
    /\ id \notin IdsOf(after)
    /\ Len(after) = Len(before) - Cardinality({i \in 1..Len(before) : before[i].id = id})
    /\ \A i, j \in 1..Len(before) :
          (i < j /\ before[i].id # id /\ before[j].id # id) =>
              \E m, n \in 1..Len(after) : m < n /\ after[m] = before[i] /\ after[n] = before[j]
    /\ \A i \in 1..Len(before) : before[i].id # id => before[i] \in Range(after)

\* C18: once handleDeleteMessage(messageId, isAI) has been accepted, aiMessages
\* (isAI true) or messages (isAI false) holds no document with that id; the step
\* that deletes takes only that document out of that collection and leaves
\* every other document, the other collection, all conversation metadata and
\* the page's own state as they were.
C18_DeleteRemovesOnlyThatDocument ==
    /\ [](\A k \in DeleteIds : dels[k].outcome = "deleted" =>
             dels[k].messageId \notin IdsOf(IF dels[k].isAI THEN aiDocs ELSE msgDocs))
    /\ [][\A k \in DeleteIds : DeleteSucceeds(k) =>
             /\ IF dels[k].isAI
                THEN OnlyRemoved(aiDocs, aiDocs', dels[k].messageId) /\ msgDocs' = msgDocs
                ELSE OnlyRemoved(msgDocs, msgDocs', dels[k].messageId) /\ aiDocs' = aiDocs
             /\ conversations' = conversations
             /\ messages' = messages /\ alerts' = alerts
             /\ UNCHANGED <<selVars, draftVars, submitVars>>]_vars

\* The message whose text is the conversation's lastMessage is deleted: the
\* other message of the conversation, the group's message and the AI stream are
\* there, and lastMessage still shows the deleted text.
C18_Witness ==
    /\ \E k \in DeleteIds : dels[k].outcome = "deleted" /\ dels[k].messageId = 1 /\ ~dels[k].isAI
    /\ IdsOf(msgDocs) = {2, 3}
    /\ aiDocs = StoredAiMessages
    /\ conversations = EarlierConversation
    /\ conversations[conversationKey(Me, Peer1)].lastMessage = StoredMessages[1].text

----------------------------------------------------------------------------
(* SpecStreams: the five subscriptions deliver in any interleaving, signed   *)
(* in as Me with Peer1 selected.  SpecIdentity: auth.currentUser changes too *)

InitStreamsSpec ==
    /\ InitKey /\ InitDraft /\ InitSubmit /\ InitForward /\ InitSlices /\ InitDelete
    /\ InitStoreEmpty
    /\ selectedUser = Peer1 /\ selectedGroup = Null /\ selectedAI = FALSE
    /\ effectPending = FALSE
    /\ msgSub = messagesQuery(Me, Peer1, Null, FALSE)
    /\ listeners = <<msgSub>>
    /\ messages = << >>

NextStreams ==
    \/ UsersDelivered
    \/ GroupsDelivered
    \/ MessagesDelivered
    \/ PresenceDelivered
    \/ TypingDelivered

SpecStreams == InitStreamsSpec /\ [][NextStreams]_vars

NextIdentity ==
    \/ NextStreams
    \/ \E uid \in {Null, Me, Peer2} : AuthChanged(uid)

SpecIdentity == InitStreamsSpec /\ [][NextIdentity]_vars

----------------------------------------------------------------------------
(* C11: the order of snapshots of different subscriptions (SpecStreams) *)

InitialSlices ==
    [users |-> << >>, currentUserData |-> NoUser, groups |-> << >>, messages |-> << >>,
     userStatus |-> << >>, typingStatus |-> << >>]

\* The callback of a subscription for its j-th snapshot
Applying(stream, st, j) ==
    CASE stream = "users"    -> onUsers(st, UsersSnapshot(j), Me)
      [] stream = "groups"   -> onGroups(st, GroupsSnapshot(j))
      [] stream = "messages" -> onMessages(st, MessagesSnapshot(msgSub, j))
      [] stream = "presence" -> onStatus(st, selectedUser, PresenceData(j))
      [] stream = "typing"   -> onTyping(st, selectedUser, TypingValue(j))

\* st after the first n snapshots of one subscription, in its order
RECURSIVE Replayed(_, _, _)
Replayed(stream, n, st) ==
    IF n = 0 THEN st ELSE Applying(stream, Replayed(stream, n - 1, st), n)

\* The slices after the snapshots delivered so far, one subscription after the other
OneStreamAfterTheOther ==
    Replayed("typing", delivered["typing"],
        Replayed("presence", delivered["presence"],
            Replayed("messages", delivered["messages"],
                Replayed("groups", delivered["groups"],
                    Replayed("users", delivered["users"], InitialSlices)))))

\* C11: whatever the interleaving in which the snapshots delivered so far
\* arrived, users, currentUserData, groups, messages, userStatus and typingStatus
\* are what they are when the same snapshots are applied one subscription after
\* the other, each subscription's in its own order.
C11_StreamsCommute == CurrentSlices = OneStreamAfterTheOther

\* Every subscription has delivered all its snapshots: the page holds the last
\* snapshot of each.
C11_Witness ==
    /\ \A stream \in Streams : delivered[stream] = MaxSnapshots
    /\ users = UsersSnapshot(MaxSnapshots)
    /\ Len(messages) = MaxSnapshots
    /\ Peer1 \in DOMAIN userStatus /\ Peer1 \in DOMAIN typingStatus
    /\ typingStatus[Peer1] = TypingValue(MaxSnapshots)

----------------------------------------------------------------------------
(* C19: currentUserData and the signed-in user (SpecIdentity) *)

\* C19: currentUserData is the entry of users whose uid is auth.currentUser's,
\* and none when nobody is signed in or users has no such entry.
C19_CurrentUserDataFollowsIdentity ==
    currentUserData = (IF Truthy(authUser) THEN Find(users, authUser) ELSE NoUser)

====
